---------------------------- MODULE Spec2Model ----------------------------
(***************************************************************************)
(* Model of the Umaplay dataset scrapers:                                  *)
(*   src/datasets/scrape_supports.py  (effect flattening, outcome scoring, *)
(*        default-preference selection, event parsing, the card loop)      *)
(*   src/datasets/scrape_skills.py    (the skill filter)                   *)
(*                                                                         *)
(* Python values are modelled as follows.                                  *)
(*   str    : a sequence of one-character strings, <<"+","1">> is "+1"     *)
(*   dict   : a function whose DOMAIN is the set of keys present           *)
(*   ordered dict (options) : a sequence of <<key, value>> pairs           *)
(*   a JSON value of an effect entry : a record [k, n, s] with k the kind  *)
(*        ("none" for a field that is missing, "int", "str")               *)
(***************************************************************************)
EXTENDS Integers, Sequences, FiniteSets, TLC

VARIABLES
    \* parse_effects_from_event_dict(event_dict, skill_map)
    pe_pc, event_dict, skill_map, pe_ret,
    \* choose_default_preference(options)
    cp_pc, options, cp_ret,
    \* parse_events_from_json_data(event_data, debug, skill_map)
    ev_pc, event_data, ev_ret,
    \* scrape_supports.main
    pc, supported_cards, card_idx, all_supports, img_dir, cleared, out_file,
    \* scrape_skills.main
    sk_pc, raw_skills_data, detailed_skills, sk_file

pe_vars == <<pe_pc, event_dict, skill_map, pe_ret>>
cp_vars == <<cp_pc, options, cp_ret>>
ev_vars == <<ev_pc, event_data, ev_ret>>
main_vars == <<pc, supported_cards, card_idx, all_supports, img_dir, cleared,
               out_file>>
sk_vars == <<sk_pc, raw_skills_data, detailed_skills, sk_file>>
vars == <<pe_vars, cp_vars, ev_vars, main_vars, sk_vars>>

-----------------------------------------------------------------------------
(* Bounds of the model.                                                    *)

\* longest effect list ('r') handed to parse_effects_from_event_dict
MaxEffects == 2
\* most options in a mapping handed to choose_default_preference
MaxOpts == 2
\* most outcomes of one option
MaxOuts == 2
\* most events in each of the 'random' and 'arrows' lists
MaxEvents == 2
\* most card slugs on the command line
MaxCards == 2
\* most records in the downloaded skill list
MaxSkills == 2

-----------------------------------------------------------------------------
(* Python strings and the int()/str() conversions.                         *)

Digits == <<"0", "1", "2", "3", "4", "5", "6", "7", "8", "9">>

IsDigitChar(c) == \E i \in 1..Len(Digits) : Digits[i] = c

DigitVal(c) == (CHOOSE i \in 1..Len(Digits) : Digits[i] = c) - 1

\* str.isdigit(): non-empty and every character a digit
IsDigitStr(s) == Len(s) > 0 /\ \A i \in 1..Len(s) : IsDigitChar(s[i])

RECURSIVE DigitsToInt(_)
DigitsToInt(s) ==
    IF Len(s) = 0 THEN 0
    ELSE 10 * DigitsToInt(SubSeq(s, 1, Len(s) - 1)) + DigitVal(s[Len(s)])

RECURSIVE NatToStr(_)
NatToStr(n) ==
    IF n < 10 THEN <<Digits[n + 1]>>
    ELSE NatToStr(n \div 10) \o <<Digits[(n % 10) + 1]>>

\* str(n) for an int
IntToStr(n) == IF n < 0 THEN <<"-">> \o NatToStr(-n) ELSE NatToStr(n)

RECURSIVE LStrip(_, _)
LStrip(s, c) ==
    IF Len(s) > 0 /\ s[1] = c THEN LStrip(Tail(s), c) ELSE s

RECURSIVE RStrip(_, _)
RStrip(s, c) ==
    IF Len(s) > 0 /\ s[Len(s)] = c THEN RStrip(SubSeq(s, 1, Len(s) - 1), c)
    ELSE s

\* str.strip(c): every leading and every trailing c is removed
Strip(s, c) == RStrip(LStrip(s, c), c)

\* int(s) for a str: surrounding whitespace ignored, one optional sign, then
\* digits.  ok = FALSE stands for ValueError.
PyInt(s) ==
    LET t == Strip(s, " ")
        signed == Len(t) > 0 /\ t[1] \in {"+", "-"}
        body == IF signed THEN Tail(t) ELSE t
    IN  IF IsDigitStr(body)
        THEN [ok |-> TRUE,
              n |-> IF signed /\ t[1] = "-" THEN -DigitsToInt(body)
                    ELSE DigitsToInt(body)]
        ELSE [ok |-> FALSE, n |-> 0]

\* JSON values of an effect entry's fields
NoneVal == [k |-> "none", n |-> 0, s |-> <<>>]
IntVal(n) == [k |-> "int", n |-> n, s |-> <<>>]
StrVal(s) == [k |-> "str", n |-> 0, s |-> s]

\* str(v)
PyStr(v) ==
    CASE v.k = "none" -> <<"N", "o", "n", "e">>
      [] v.k = "int" -> IntToStr(v.n)
      [] OTHER -> v.s

\* int(str(value_raw).strip('+')), line 79
ParseValue(value_raw) == PyInt(Strip(PyStr(value_raw), "+"))

-----------------------------------------------------------------------------
(* Dictionaries.                                                           *)

EmptyDict == [x \in {} |-> 0]

DictGet(d, key, default) == IF key \in DOMAIN d THEN d[key] ELSE default

DictPut(d, key, v) ==
    [x \in DOMAIN d \cup {key} |-> IF x = key THEN v ELSE d[x]]

-----------------------------------------------------------------------------
(* parse_effects_from_event_dict                                           *)

\* the if/elif chain of lines 83-98: type code -> stat key
StatKeyOf ==
    [t \in {"en", "sp", "st", "po", "gu", "in", "pt", "bo"} |->
        CASE t = "en" -> "energy"
          [] t = "sp" -> "speed"
          [] t = "st" -> "stamina"
          [] t = "po" -> "power"
          [] t = "gu" -> "guts"
          [] t = "in" -> "wit"
          [] t = "pt" -> "skill_pts"
          [] t = "bo" -> "bond"]

StatCodes == DOMAIN StatKeyOf

\* skill_map.get(skill_id, f"Skill ID: {skill_id}")
SkillName(smap, skill_id) ==
    DictGet(smap, skill_id, <<"Skill ID: ">> \o skill_id)

\* str(item.get('d', ''))
SkillIdOf(item) == IF item.d.k = "none" THEN <<>> ELSE PyStr(item.d)

\* one iteration of the loop of lines 73-103 over the entry item
EffectsLoopBody(eff, item, smap) ==
    LET value == ParseValue(item.v)
    IN  IF ~value.ok THEN eff
        ELSE IF item.t \in StatCodes
        THEN DictPut(eff, StatKeyOf[item.t],
                     DictGet(eff, StatKeyOf[item.t], 0) + value.n)
        ELSE IF item.t = "sk"
        THEN DictPut(eff, "hints",
                     Append(DictGet(eff, "hints", <<>>),
                            SkillName(smap, SkillIdOf(item))))
        ELSE eff

RECURSIVE EffectsLoop(_, _, _)
EffectsLoop(eff, r, smap) ==
    IF Len(r) = 0 THEN eff
    ELSE EffectsLoop(EffectsLoopBody(eff, Head(r), smap), Tail(r), smap)

\* line 105: {k: v for k, v in eff.items() if v not in (None, 0, [])}
DropEmpty(eff) ==
    LET keep == {x \in DOMAIN eff :
                    IF x = "hints" THEN eff[x] # <<>> ELSE eff[x] # 0}
    IN  [x \in keep |-> eff[x]]

parse_effects_from_event_dict(ed, smap) ==
    DropEmpty(EffectsLoop(EmptyDict, ed, smap))


-----------------------------------------------------------------------------
(* Inputs of parse_effects_from_event_dict.                                *)

\* the value fields tried: missing, integers, well-formed and malformed strings
RawValues ==
    {NoneVal, IntVal(-1), IntVal(1),
     StrVal(<<"+", "1">>), StrVal(<<"1", "+">>), StrVal(<<"x">>)}

\* the skill identifiers tried in the 'd' field
SkillIds == {NoneVal, IntVal(5), IntVal(7)}

\* effect entries: every stat code with every value; skill hints with and
\* without a value field; one entry of a code the chain does not know
EffectItems ==
    [t : StatCodes, v : RawValues, d : {NoneVal}]
    \cup [t : {"sk"}, v : {NoneVal, IntVal(1)}, d : SkillIds]
    \cup [t : {"mo"}, v : {IntVal(1)}, d : {NoneVal}]

SeqsUpTo(S, n) == UNION {[1..m -> S] : m \in 0..n}

\* the lookup load_skill_data returns: str(id) -> name_en
LoadedSkills == [x \in {<<"5">>} |-> <<"Corner Adept">>]

PeIdle ==
    /\ pe_pc = "idle"
    /\ event_dict = <<>>
    /\ skill_map = EmptyDict
    /\ pe_ret = EmptyDict

PeInit ==
    /\ pe_pc = "call"
    /\ \E m \in 0..MaxEffects : event_dict \in [1..m -> EffectItems]
    /\ skill_map = LoadedSkills
    /\ pe_ret = EmptyDict

\* the call parse_effects_from_event_dict({'r': event_dict}, skill_map)
ParseEffects ==
    /\ pe_pc = "call"
    /\ pe_ret' = parse_effects_from_event_dict(event_dict, skill_map)
    /\ pe_pc' = "done"
    /\ UNCHANGED <<event_dict, skill_map>>

-----------------------------------------------------------------------------
(* score_outcome.  The weights of lines 20-33; W_BOND = 0.3 is the         *)
(* fraction W_BOND_NUM / W_BOND_DEN, and score_outcome is the score times  *)
(* W_BOND_DEN, so that scores stay integers and compare as the reals do.   *)

W_ENERGY == 100
W_STAT == 10
W_SKILLPTS == 2
W_HINT == 1
W_BOND_NUM == 3
W_BOND_DEN == 10
W_MOOD == 2

STAT_WEIGHTS ==
    [stat \in {"speed", "stamina", "power", "wit", "guts"} |->
        CASE stat = "speed" -> 5
          [] stat = "stamina" -> 4
          [] stat = "power" -> 3
          [] stat = "wit" -> 2
          [] stat = "guts" -> 1]

RECURSIVE SumOver(_, _)
SumOver(S, f) ==
    IF S = {} THEN 0
    ELSE LET x == CHOOSE y \in S : TRUE
         IN  f[x] + SumOver(S \ {x}, f)

score_outcome(eff) ==
    LET energy == DictGet(eff, "energy", 0)
        stats_sum ==
            SumOver(DOMAIN STAT_WEIGHTS,
                    [stat \in DOMAIN STAT_WEIGHTS |->
                        STAT_WEIGHTS[stat] * DictGet(eff, stat, 0)])
        spts == DictGet(eff, "skill_pts", 0)
        hints == Len(DictGet(eff, "hints", <<>>))
        bond == DictGet(eff, "bond", 0)
        mood == DictGet(eff, "mood", 0)
    IN  W_BOND_DEN * (W_ENERGY * energy + W_STAT * stats_sum
                      + W_SKILLPTS * spts + W_HINT * hints + W_MOOD * mood)
        + W_BOND_NUM * bond

-----------------------------------------------------------------------------
(* choose_default_preference.  options is the dict in iteration order, a   *)
(* sequence of <<key, outs>>; best_score = float("-inf") is finite = FALSE. *)

MinOf(S) == CHOOSE x \in S : \A y \in S : x <= y

\* min(score_outcome(o) for o in outs), line 130
WorstCase(outs) == MinOf({score_outcome(outs[i]) : i \in 1..Len(outs)})

\* int(k) if str(k).isdigit() else 1, line 133
CurrentKey(k) == IF IsDigitStr(k) THEN DigitsToInt(k) ELSE 1

\* the loop body without the tie-break on the key
ChooseLoopBody_NoTieBreak(best, k, outs) ==
    IF outs = <<>> THEN best
    ELSE LET worst_case == WorstCase(outs)
             current_key == CurrentKey(k)
         IN  IF ~best.finite \/ worst_case > best.score
             THEN [key |-> current_key, finite |-> TRUE, score |-> worst_case]
             ELSE best

\* the loop body with an option without outcomes scored 0 instead of skipped
ChooseLoopBody_EmptyScoresZero(best, k, outs) ==
    LET worst_case == IF outs = <<>> THEN 0 ELSE WorstCase(outs)
        current_key == CurrentKey(k)
    IN  IF \/ ~best.finite
           \/ worst_case > best.score
           \/ (worst_case = best.score /\ current_key < best.key)
        THEN [key |-> current_key, finite |-> TRUE, score |-> worst_case]
        ELSE best

\* one iteration of the loop of lines 126-136
ChooseLoopBody(best, k, outs) ==
    IF outs = <<>> THEN best
    ELSE LET worst_case == WorstCase(outs)
             current_key == CurrentKey(k)
         IN  IF \/ ~best.finite
                \/ worst_case > best.score
                \/ (worst_case = best.score /\ current_key < best.key)
             THEN [key |-> current_key, finite |-> TRUE, score |-> worst_case]
             ELSE best

RECURSIVE ChooseLoop(_, _)
ChooseLoop(best, opts) ==
    IF Len(opts) = 0 THEN best
    ELSE ChooseLoop(ChooseLoopBody(best, Head(opts)[1], Head(opts)[2]),
                    Tail(opts))

choose_default_preference(opts) ==
    ChooseLoop([key |-> 1, finite |-> FALSE, score |-> 0], opts).key

-----------------------------------------------------------------------------
(* Inputs of choose_default_preference.                                    *)

\* option keys tried: "10" sorts before "2" as text and after it as a number
OptionKeys == {<<"1">>, <<"2">>, <<"1", "0">>, <<"x">>}

\* outcomes tried: one scoring 2, one scoring -100
OutcomeSamples == {[x \in {"skill_pts"} |-> 1], [x \in {"energy"} |-> -1]}

OutcomeLists == SeqsUpTo(OutcomeSamples, MaxOuts)

\* a dict has each key once
DistinctKeys(opts) ==
    \A i, j \in 1..Len(opts) : i # j => opts[i][1] # opts[j][1]

CpIdle ==
    /\ cp_pc = "idle"
    /\ options = <<>>
    /\ cp_ret = 0

CpInit ==
    /\ cp_pc = "call"
    /\ \E m \in 0..MaxOpts : options \in [1..m -> OptionKeys \X OutcomeLists]
    /\ DistinctKeys(options)
    /\ cp_ret = 0

\* the call choose_default_preference(options)
ChooseDefault ==
    /\ cp_pc = "call"
    /\ cp_ret' = choose_default_preference(options)
    /\ cp_pc' = "done"
    /\ UNCHANGED options

-----------------------------------------------------------------------------
(* parse_events_from_json_data.  event_data is a dict from language key to *)
(* a JSON string; the string is the record [ok, random, arrows]: ok says   *)
(* whether json.loads accepts it, random and arrows are its two lists (a   *)
(* missing list reads as the empty one).  An event is [n, c]: its title    *)
(* and its choices, each choice the 'r' list of its effect entries.        *)

EmptyStruct == [ok |-> TRUE, random |-> <<>>, arrows |-> <<>>]

\* lines 148-150
LangOf(ed) == IF "en" \in DOMAIN ed THEN "en" ELSE "ja"

\* the choices numbered from 0, "enumerate" without its start argument
EventOptions_ZeroBased(ev, smap) ==
    [idx \in 1..Len(ev.c) |->
        <<IntToStr(idx - 1), <<parse_effects_from_event_dict(ev.c[idx], smap)>>>>]

\* lines 163-167 and 187-191: options[str(idx)] = [outcome_effects]
EventOptions(ev, smap) ==
    [idx \in 1..Len(ev.c) |->
        <<IntToStr(idx), <<parse_effects_from_event_dict(ev.c[idx], smap)>>>>]

\* the test left out: every event is emitted
HasOptions_Always(opts) == TRUE

\* "if options:", lines 169 and 193
HasOptions(opts) == opts # <<>>

EventEntry(type, chain_step, ev, opts) ==
    [type |-> type,
     chain_step |-> chain_step,
     name |-> ev.n,
     options |-> opts,
     default_preference |-> choose_default_preference(opts)]

\* the loop of lines 159-178
RECURSIVE RandomLoop(_, _, _)
RandomLoop(out, events, smap) ==
    IF Len(events) = 0 THEN out
    ELSE LET opts == EventOptions(Head(events), smap)
         IN  RandomLoop(IF HasOptions(opts)
                        THEN Append(out, EventEntry("random", 1, Head(events), opts))
                        ELSE out,
                        Tail(events), smap)

\* the increment moved into the "if options:" block
NextChainStep_WhenEmitted(chain_step, opts) ==
    IF opts # <<>> THEN chain_step + 1 ELSE chain_step

\* "chain_step += 1", line 204
NextChainStep(chain_step, opts) == chain_step + 1

\* the loop of lines 183-204
RECURSIVE ChainLoop(_, _, _, _)
ChainLoop(out, events, chain_step, smap) ==
    IF Len(events) = 0 THEN out
    ELSE LET opts == EventOptions(Head(events), smap)
         IN  ChainLoop(IF HasOptions(opts)
                       THEN Append(out, EventEntry("chain", chain_step,
                                                   Head(events), opts))
                       ELSE out,
                       Tail(events), NextChainStep(chain_step, opts), smap)

parse_events_from_json_data(ed, smap) ==
    LET lang == LangOf(ed)
        events_struct == DictGet(ed, lang, EmptyStruct)
    IN  IF ~events_struct.ok THEN <<>>
        ELSE ChainLoop(RandomLoop(<<>>, events_struct.random, smap),
                       events_struct.arrows, 1, smap)

-----------------------------------------------------------------------------
(* Inputs of parse_events_from_json_data.                                  *)

Entry(t, v) == [t |-> t, v |-> v, d |-> NoneVal]

\* events tried: no choices; one choice without effects; one choice whose
\* only entry has a malformed value; two choices of different score; two
\* choices of equal score
EventSamples ==
    {[n |-> "A", c |-> <<>>],
     [n |-> "B", c |-> << <<>> >>],
     [n |-> "C", c |-> << <<Entry("sp", StrVal(<<"x">>))>> >>],
     [n |-> "D", c |-> << <<Entry("gu", IntVal(1))>>,
                          <<Entry("sp", StrVal(<<"+", "1">>))>> >>],
     [n |-> "E", c |-> << <<Entry("pt", IntVal(1))>>,
                          <<Entry("pt", IntVal(1))>> >>]}

\* a JSON string json.loads rejects
Malformed == [ok |-> FALSE, random |-> <<>>, arrows |-> <<>>]

\* the Japanese structure of a card that has an English one too
OtherStruct ==
    [ok |-> TRUE, random |-> <<[n |-> "D", c |-> << <<>> >>]>>, arrows |-> <<>>]

\* event_data with the structure st: English only, Japanese only, both
EventDataOf(keys, st) ==
    CASE keys = "en" -> [x \in {"en"} |-> st]
      [] keys = "ja" -> [x \in {"ja"} |-> st]
      [] OTHER -> [x \in {"en", "ja"} |-> IF x = "en" THEN st ELSE OtherStruct]

EvIdle ==
    /\ ev_pc = "idle"
    /\ event_data = EmptyDict
    /\ ev_ret = <<>>

EvInit ==
    /\ ev_pc = "call"
    /\ \/ event_data = EmptyDict
       \/ \E keys \in {"en", "ja", "both"} :
             \/ event_data = EventDataOf(keys, Malformed)
             \/ \E mr, ma \in 0..MaxEvents :
                   \E random \in [1..mr -> EventSamples],
                      arrows \in [1..ma -> EventSamples] :
                      event_data =
                         EventDataOf(keys, [ok |-> TRUE, random |-> random,
                                            arrows |-> arrows])
    /\ ev_ret = <<>>

\* the call parse_events_from_json_data(event_data, debug, skill_map)
ParseEvents ==
    /\ ev_pc = "call"
    /\ ev_ret' = parse_events_from_json_data(event_data, LoadedSkills)
    /\ ev_pc' = "done"
    /\ UNCHANGED event_data

-----------------------------------------------------------------------------
(* scrape_skills.main.  raw_skills_data is the body the URL serves: the    *)
(* record [ok, skills], ok saying whether it decodes as JSON.  A skill is  *)
(* [id, name_en, desc_en, iconid], each a JSON value (NoneVal when the key *)
(* is missing).  sk_file is the output file and what it holds.             *)

\* Python truthiness of a JSON value: "not name_en", line 110
Truthy(v) ==
    CASE v.k = "none" -> FALSE
      [] v.k = "int" -> v.n # 0
      [] OTHER -> v.s # <<>>

\* the test with the identifier tested for truth, as the name is
KeepSkill_FalsyId(skill) ==
    ~(\/ ~Truthy(skill.id)
      \/ ~Truthy(skill.name_en)
      \/ ~Truthy(skill.desc_en)
      \/ skill.iconid.k = "none")

\* the test of line 110, negated: the record is kept
KeepSkill(skill) ==
    ~(\/ skill.id.k = "none"
      \/ ~Truthy(skill.name_en)
      \/ ~Truthy(skill.desc_en)
      \/ skill.iconid.k = "none")

\* lines 118-131 (rarity and grade symbol are read from fields this model
\* does not carry)
DetailedSkill(skill) ==
    [id |-> skill.id,
     icon_filename |-> <<"utx_ico_skill_">> \o PyStr(skill.iconid) \o <<".png">>,
     name |-> skill.name_en,
     description |-> skill.desc_en]

\* the loop of lines 104-131
RECURSIVE SkillLoop(_, _)
SkillLoop(out, skills) ==
    IF Len(skills) = 0 THEN out
    ELSE SkillLoop(IF KeepSkill(Head(skills))
                   THEN Append(out, DetailedSkill(Head(skills)))
                   ELSE out,
                   Tail(skills))

SkillSamples ==
    [id : {NoneVal, IntVal(0), IntVal(7)},
     name_en : {NoneVal, StrVal(<<>>), StrVal(<<"A">>)},
     desc_en : {NoneVal, StrVal(<<>>), StrVal(<<"d">>)},
     iconid : {NoneVal, IntVal(1)}]

SkIdle ==
    /\ sk_pc = "idle"
    /\ raw_skills_data = [ok |-> FALSE, skills |-> <<>>]
    /\ detailed_skills = <<>>
    /\ sk_file = [written |-> FALSE, content |-> <<>>]

SkInit ==
    /\ sk_pc = "fetch"
    /\ \/ raw_skills_data = [ok |-> FALSE, skills |-> <<>>]
       \/ \E m \in 0..MaxSkills :
             \E skills \in [1..m -> SkillSamples] :
                raw_skills_data = [ok |-> TRUE, skills |-> skills]
    /\ detailed_skills = <<>>
    /\ sk_file = [written |-> FALSE, content |-> <<>>]

\* lines 86-91: the request succeeds, or fails and main returns
SkFetch ==
    /\ sk_pc = "fetch"
    /\ \E success \in BOOLEAN :
          sk_pc' = IF success THEN "parse" ELSE "returned"
    /\ UNCHANGED <<raw_skills_data, detailed_skills, sk_file>>

\* lines 94-131: response.json(), then the filter loop
SkProcess ==
    /\ sk_pc = "parse"
    /\ IF raw_skills_data.ok
       THEN /\ detailed_skills' = SkillLoop(<<>>, raw_skills_data.skills)
            /\ sk_pc' = "write"
       ELSE /\ sk_pc' = "returned"
            /\ UNCHANGED detailed_skills
    /\ UNCHANGED <<raw_skills_data, sk_file>>

\* lines 136-143: the output file is written, or IOError is reported
SkWrite ==
    /\ sk_pc = "write"
    /\ \E success \in BOOLEAN :
          /\ sk_file' = IF success
                        THEN [written |-> TRUE, content |-> detailed_skills]
                        ELSE sk_file
          /\ sk_pc' = IF success THEN "done" ELSE "write_failed"
    /\ UNCHANGED <<raw_skills_data, detailed_skills>>

-----------------------------------------------------------------------------
(* scrape_supports.main.                                                   *)
(*   supported_cards : what the site serves for each slug of the list, a   *)
(*       record [page, image, name]:                                       *)
(*       page   "net_error"   requests.get raises / non-2xx status         *)
(*              "no_marker"   no __NEXT_DATA__ tag                         *)
(*              "bad_json"    json.loads raises JSONDecodeError            *)
(*              "missing_key" props / pageProps / itemData / eventData     *)
(*                            is missing: KeyError                         *)
(*              "ill_typed"   the payload is not an object where one is    *)
(*                            indexed or called (data is a list, itemData  *)
(*                            is a list, 'type' is a number): TypeError or *)
(*                            AttributeError inside the try of line 282    *)
(*              "ill_typed_events"  eventData is not a dict of strings:    *)
(*                            TypeError or AttributeError at line 348      *)
(*              "good"                                                     *)
(*       image  "no_tag", "no_src", "download_fails" (RequestException),   *)
(*              "write_fails" (open or write raises OSError), "ok"         *)
(*       name   the card's char_name                                       *)
(*   img_dir : the image directory, [kind, entries]; entries maps a file   *)
(*       name to [kind, origin, locked], origin "old" for what a run finds *)
(*       there and "run" for what this run wrote, locked for an entry      *)
(*       whose deletion raises (the warning of line 241)                   *)
(*   cleared : how many times the run went through the clearing step of    *)
(*       lines 231-241                                                     *)
(*   out_file : the output file and what it holds                          *)

FailedPages == {"net_error", "no_marker", "bad_json", "missing_key"}

ImageOutcomes == {"no_tag", "no_src", "download_fails", "write_fails", "ok"}

\* item_data of the two cards tried
ItemData(name) ==
    IF name = "X"
    THEN [char_name |-> <<"X">>, rarity |-> 3, type |-> "speed"]
    ELSE [char_name |-> <<"Y", " ", "Z">>, rarity |-> 2, type |-> "group"]

\* event_data of every good card
CardEventData ==
    [x \in {"en"} |->
        [ok |-> TRUE,
         random |-> <<[n |-> "D", c |-> << <<Entry("gu", IntVal(1))>>,
                                           <<Entry("sp", IntVal(1))>> >>]>>,
         arrows |-> <<[n |-> "A", c |-> <<>>],
                      [n |-> "B", c |-> << <<>> >>]>>]]

\* lines 248-255
ATTRIBUTE_MAP ==
    [a \in {"speed", "stamina", "power", "guts", "intelligence", "friend"} |->
        CASE a = "speed" -> "SPD"
          [] a = "stamina" -> "STA"
          [] a = "power" -> "PWR"
          [] a = "guts" -> "GUTS"
          [] a = "intelligence" -> "WIT"
          [] a = "friend" -> "PAL"]

\* str.upper() on the attribute names tried
Upper(a) == IF a = "group" THEN "GROUP" ELSE a

\* line 297
Attribute(raw_attribute) ==
    DictGet(ATTRIBUTE_MAP, raw_attribute, Upper(raw_attribute))

\* line 293
Rarity(rarity_code) ==
    IF rarity_code = 3 THEN <<"SSR">>
    ELSE <<"Rarity_">> \o IntToStr(rarity_code)

\* str.replace(" ", "_")
ReplaceSpaces(s) == [i \in 1..Len(s) |-> IF s[i] = " " THEN "_" ELSE s[i]]

\* line 300
FormattedId(item_data) ==
    ReplaceSpaces(item_data.char_name \o <<"_", Attribute(item_data.type), "_">>
                  \o Rarity(item_data.rarity))

\* line 330, the extension of the image URL being .png
ImageFileName(item_data) == FormattedId(item_data) \o <<".png">>

\* lines 348-357
SupportObj(card) ==
    LET item_data == ItemData(card.name)
    IN  [type |-> "support",
         name |-> item_data.char_name,
         rarity |-> Rarity(item_data.rarity),
         attribute |-> Attribute(item_data.type),
         id |-> FormattedId(item_data),
         choice_events |-> parse_events_from_json_data(CardEventData, LoadedSkills)]

Cards ==
    [page : FailedPages \cup {"ill_typed"}, image : {"no_tag"}, name : {"X"}]
    \cup [page : {"good"}, image : ImageOutcomes, name : {"X", "Y"}]
    \cup [page : {"ill_typed_events"}, image : {"ok"}, name : {"X"}]

\* what a run may find in the image directory: an image of an earlier run,
\* a subdirectory that cannot be deleted, and an entry that is neither file,
\* link nor directory
OldEntries ==
    [x \in {ImageFileName(ItemData("X")), <<"sub">>, <<"fifo">>} |->
        CASE x = <<"fifo">> ->
                [kind |-> "other", origin |-> "old", locked |-> FALSE]
          [] x = <<"sub">> ->
                [kind |-> "dir", origin |-> "old", locked |-> TRUE]
          [] OTHER ->
                [kind |-> "file", origin |-> "old", locked |-> FALSE]]

Restrict(f, S) == [x \in S |-> f[x]]

ImgDirs ==
    {[kind |-> "absent", entries |-> EmptyDict],
     [kind |-> "file", entries |-> EmptyDict]}
    \cup {[kind |-> "dir", entries |-> Restrict(OldEntries, S)] :
            S \in SUBSET DOMAIN OldEntries}

MainIdle ==
    /\ pc = "idle"
    /\ supported_cards = <<>>
    /\ card_idx = 1
    /\ all_supports = <<>>
    /\ img_dir = [kind |-> "absent", entries |-> EmptyDict]
    /\ cleared = 0
    /\ out_file = [written |-> FALSE, content |-> <<>>]

MainInit ==
    /\ pc = "start"
    /\ \E m \in 0..MaxCards : supported_cards \in [1..m -> Cards]
    /\ card_idx = 1
    /\ all_supports = <<>>
    /\ img_dir \in ImgDirs
    /\ cleared = 0
    /\ out_file = [written |-> FALSE, content |-> <<>>]

\* lines 221-226: an empty slug list ends the run
Start ==
    /\ pc = "start"
    /\ pc' = IF Len(supported_cards) = 0 THEN "returned" ELSE "clear"
    /\ UNCHANGED <<supported_cards, card_idx, all_supports, img_dir, cleared,
                   out_file>>

\* the entries the clearing loop tries to delete: files, links, directories
Deletable(entries) ==
    {x \in DOMAIN entries : entries[x].kind \in {"file", "link", "dir"}}

\* the loop deleting subdirectories only
ClearedDir_DirsOnly(dir) ==
    [kind |-> "dir",
     entries |-> Restrict(dir.entries,
                          {x \in DOMAIN dir.entries :
                              \/ dir.entries[x].kind # "dir"
                              \/ dir.entries[x].locked})]

\* lines 233-241: what the loop leaves in the directory
ClearedDir(dir) ==
    [kind |-> "dir",
     entries |-> Restrict(dir.entries,
                          {x \in DOMAIN dir.entries :
                              \/ x \notin Deletable(dir.entries)
                              \/ dir.entries[x].locked})]

\* lines 231-241: each entry is deleted, or its deletion fails with a warning
\* and the entry stays
ClearImgDir ==
    /\ pc = "clear"
    /\ cleared' = cleared + 1
    /\ CASE img_dir.kind = "absent" ->
              /\ pc' = "mkdir"
              /\ UNCHANGED img_dir
         [] img_dir.kind = "file" ->
              \* os.listdir raises NotADirectoryError
              /\ pc' = "crash_fs"
              /\ UNCHANGED img_dir
         [] OTHER ->
              /\ img_dir' = ClearedDir(img_dir)
              /\ pc' = "mkdir"
    /\ UNCHANGED <<supported_cards, card_idx, all_supports, out_file>>

\* lines 244-245
MakeImgDir ==
    /\ pc = "mkdir"
    /\ img_dir' = IF img_dir.kind = "absent"
                  THEN [kind |-> "dir", entries |-> EmptyDict]
                  ELSE img_dir
    /\ pc' = "loop"
    /\ UNCHANGED <<supported_cards, card_idx, all_supports, cleared, out_file>>

\* lines 313-343: the directory after the image stage of the card
AfterImage(dir, card) ==
    IF card.image = "ok"
    THEN [dir EXCEPT !.entries =
             DictPut(dir.entries, ImageFileName(ItemData(card.name)),
                     [kind |-> "file", origin |-> "run", locked |-> FALSE])]
    ELSE dir

\* the iteration with a failed download ending it like a failed page fetch
CardOutcome_DownloadSkips(card) ==
    CASE card.page \in FailedPages -> "skip"
      [] card.page = "ill_typed" -> "raise"
      [] card.page = "ill_typed_events" -> "raise"
      [] card.image = "write_fails" -> "raise_fs"
      [] card.image = "download_fails" -> "skip"
      [] OTHER -> "append"

\* what ends one iteration of the loop of lines 261-359:
\*   "skip"   the card is logged and skipped (continue)
\*   "raise"  an exception no handler catches leaves main
\*   "append" the record is appended
CardOutcome(card) ==
    CASE card.page \in FailedPages -> "skip"
      [] card.page = "ill_typed" -> "raise"
      [] card.page = "ill_typed_events" -> "raise"
      [] card.image = "write_fails" -> "raise_fs"
      [] OTHER -> "append"

\* one iteration of the loop of lines 261-359
ProcessCard ==
    /\ pc = "loop"
    /\ card_idx <= Len(supported_cards)
    /\ LET card == supported_cards[card_idx]
           outcome == CardOutcome(card)
       IN  /\ img_dir' = IF card.page \in {"good", "ill_typed_events"}
                         THEN AfterImage(img_dir, card)
                         ELSE img_dir
           /\ all_supports' = IF outcome = "append"
                              THEN Append(all_supports, SupportObj(card))
                              ELSE all_supports
           /\ pc' = CASE outcome = "raise" -> "crash_payload"
                      [] outcome = "raise_fs" -> "crash_fs"
                      [] OTHER -> "loop"
           /\ card_idx' = IF outcome \in {"skip", "append"}
                          THEN card_idx + 1 ELSE card_idx
    /\ UNCHANGED <<supported_cards, cleared, out_file>>

\* lines 362-365: the output file is written, or open raises
WriteOutput ==
    /\ pc = "loop"
    /\ card_idx > Len(supported_cards)
    /\ \E success \in BOOLEAN :
          /\ out_file' = IF success
                         THEN [written |-> TRUE, content |-> all_supports]
                         ELSE out_file
          /\ pc' = IF success THEN "done" ELSE "crash_fs"
    /\ UNCHANGED <<supported_cards, card_idx, all_supports, img_dir, cleared>>

-----------------------------------------------------------------------------
(* The specifications: one per program entry point or function.            *)

\* scrape_supports.main
Init == MainInit /\ PeIdle /\ CpIdle /\ EvIdle /\ SkIdle

Next ==
    \/ Start /\ UNCHANGED <<pe_vars, cp_vars, ev_vars, sk_vars>>
    \/ ClearImgDir /\ UNCHANGED <<pe_vars, cp_vars, ev_vars, sk_vars>>
    \/ MakeImgDir /\ UNCHANGED <<pe_vars, cp_vars, ev_vars, sk_vars>>
    \/ ProcessCard /\ UNCHANGED <<pe_vars, cp_vars, ev_vars, sk_vars>>
    \/ WriteOutput /\ UNCHANGED <<pe_vars, cp_vars, ev_vars, sk_vars>>

Spec == Init /\ [][Next]_vars

\* parse_effects_from_event_dict
EffectsInit == PeInit /\ CpIdle /\ EvIdle /\ MainIdle /\ SkIdle

EffectsNext ==
    ParseEffects /\ UNCHANGED <<cp_vars, ev_vars, main_vars, sk_vars>>

SpecEffects == EffectsInit /\ [][EffectsNext]_vars

\* choose_default_preference
PrefInit == CpInit /\ PeIdle /\ EvIdle /\ MainIdle /\ SkIdle

PrefNext ==
    ChooseDefault /\ UNCHANGED <<pe_vars, ev_vars, main_vars, sk_vars>>

SpecPref == PrefInit /\ [][PrefNext]_vars

\* parse_events_from_json_data
EventsInit == EvInit /\ PeIdle /\ CpIdle /\ MainIdle /\ SkIdle

EventsNext ==
    ParseEvents /\ UNCHANGED <<pe_vars, cp_vars, main_vars, sk_vars>>

SpecEvents == EventsInit /\ [][EventsNext]_vars

\* scrape_skills.main
SkillsInit == SkInit /\ PeIdle /\ CpIdle /\ EvIdle /\ MainIdle

SkillsNext ==
    \/ SkFetch /\ UNCHANGED <<pe_vars, cp_vars, ev_vars, main_vars>>
    \/ SkProcess /\ UNCHANGED <<pe_vars, cp_vars, ev_vars, main_vars>>
    \/ SkWrite /\ UNCHANGED <<pe_vars, cp_vars, ev_vars, main_vars>>

SpecSkills == SkillsInit /\ [][SkillsNext]_vars

-----------------------------------------------------------------------------
(* Properties of choose_default_preference, under SpecPref.               *)

DigitKeys(opts) == \A i \in 1..Len(opts) : IsDigitStr(opts[i][1])

WithOutcomes(opts) == {i \in 1..Len(opts) : opts[i][2] # <<>>}

\* the worst-case score of an option: the least score of its outcomes
OptionWorst(outs) ==
    CHOOSE w \in {score_outcome(outs[i]) : i \in 1..Len(outs)} :
        \A i \in 1..Len(outs) : w <= score_outcome(outs[i])

\* the numeric keys of the options whose worst-case score is the greatest
BestKeys(opts) ==
    {DigitsToInt(opts[i][1]) :
        i \in {j \in WithOutcomes(opts) :
                 \A m \in WithOutcomes(opts) :
                    OptionWorst(opts[j][2]) >= OptionWorst(opts[m][2])}}

\* C1: on a mapping whose keys are distinct decimal-integer strings and in
\* which some option has outcomes, the returned key is the smallest numeric
\* key among the options whose worst-case score (the minimum of
\* score_outcome over the option's outcomes) is maximal, in whatever order
\* the mapping is iterated.
C1_DefaultIsBestWorstCase ==
    (cp_pc = "done" /\ DigitKeys(options) /\ WithOutcomes(options) # {})
        => /\ cp_ret \in BestKeys(options)
           /\ \A key \in BestKeys(options) : cp_ret <= key

\* two options tie on the maximal worst-case score, the one iterated first
\* has the larger key and two outcomes of different score
C1_Witness ==
    /\ cp_pc = "done"
    /\ DigitKeys(options)
    /\ Len(options) = 2
    /\ Len(options[1][2]) = 2
    /\ score_outcome(options[1][2][1]) # score_outcome(options[1][2][2])
    /\ options[2][2] # <<>>
    /\ OptionWorst(options[1][2]) = OptionWorst(options[2][2])
    /\ DigitsToInt(options[1][1]) > DigitsToInt(options[2][1])
    /\ cp_ret = DigitsToInt(options[2][1])

HasOutcomes(o) == o[2] # <<>>

\* C5: an option with an empty outcome list takes no part in the selection:
\* the result is the result on the mapping with those options removed, and
\* it is 1 when no option has outcomes, whether or not there is a key 1.
C5_EmptyOutcomesExcluded ==
    cp_pc = "done"
        => /\ cp_ret = choose_default_preference(SelectSeq(options, HasOutcomes))
           /\ (WithOutcomes(options) = {} => cp_ret = 1)

\* an option without outcomes is iterated before the only option that has
\* some, whose score is negative; the mapping has no key 1
C5_Witness ==
    /\ cp_pc = "done"
    /\ Len(options) = 2
    /\ options[1][2] = <<>>
    /\ options[2][2] # <<>>
    /\ OptionWorst(options[2][2]) < 0
    /\ \A i \in 1..2 : options[i][1] # <<"1">>
    /\ IsDigitStr(options[2][1])
    /\ cp_ret = DigitsToInt(options[2][1])

-----------------------------------------------------------------------------
(* Properties of parse_effects_from_event_dict, under SpecEffects.        *)

\* the name the lookup gives a skill identifier, or the placeholder
HintName(item) ==
    LET id == IF item.d.k = "none" THEN <<>> ELSE PyStr(item.d)
    IN  IF id \in DOMAIN skill_map THEN skill_map[id]
        ELSE <<"Skill ID: ">> \o id

IsSkillHint(item) == item.t = "sk"

ExpectedHints(r) ==
    LET sk == SelectSeq(r, IsSkillHint)
    IN  [i \in 1..Len(sk) |-> HintName(sk[i])]

\* C2: every 'sk' entry appends one name to 'hints', the lookup's name or
\* the placeholder, so that hints has one element per 'sk' entry in
\* encounter order, an entry without a numeric value field included.
C2_EverySkillEntryGivesAHint ==
    pe_pc = "done"
        => DictGet(pe_ret, "hints", <<>>) = ExpectedHints(event_dict)

\* the type codes and the stat keys they stand for
CodeKey ==
    {<<"en", "energy">>, <<"sp", "speed">>, <<"st", "stamina">>,
     <<"po", "power">>, <<"gu", "guts">>, <<"in", "wit">>,
     <<"pt", "skill_pts">>, <<"bo", "bond">>}

\* a signed decimal number: an optional sign, then digits
IsSignedDecimal(s) ==
    LET body == IF Len(s) > 0 /\ s[1] \in {"+", "-"} THEN Tail(s) ELSE s
    IN  IsDigitStr(body)

SignedDecimalValue(s) ==
    IF s[1] = "-" THEN -DigitsToInt(Tail(s))
    ELSE IF s[1] = "+" THEN DigitsToInt(Tail(s))
    ELSE DigitsToInt(s)

\* numeric as the claim has it: a number, or a string that is a signed
\* decimal number
IsNumeric(v) == v.k = "int" \/ (v.k = "str" /\ IsSignedDecimal(v.s))

NumericValue(v) == IF v.k = "int" THEN v.n ELSE SignedDecimalValue(v.s)

\* numeric as the conversion has it: a number, or a string that is a signed
\* decimal number once every '+' at either end, then the white space at
\* either end, is removed
Trimmed(s) == Strip(Strip(s, "+"), " ")

IsAccepted(v) == v.k = "int" \/ (v.k = "str" /\ IsSignedDecimal(Trimmed(v.s)))

AcceptedValue(v) == IF v.k = "int" THEN v.n ELSE SignedDecimalValue(Trimmed(v.s))

\* the sum of val over the entries of r with code t that satisfy num
CodeSum(r, t, num(_), val(_)) ==
    LET idx == {i \in 1..Len(r) : r[i].t = t /\ num(r[i].v)}
    IN  SumOver(idx, [i \in idx |-> val(r[i].v)])

StatIsSum(ret, key, sum) ==
    IF sum = 0 THEN key \notin DOMAIN ret
    ELSE key \in DOMAIN ret /\ ret[key] = sum

HasAcceptedValue(item) == IsAccepted(item.v)

\* C3: each stat key holds the sum of the values of the entries of
\* its code whose value is numeric, and is absent exactly when that sum is
\* zero or there is no such entry.
C3_StatIsSumOfNumericEntries ==
    pe_pc = "done"
        => \A ck \in CodeKey :
              StatIsSum(pe_ret, ck[2],
                        CodeSum(event_dict, ck[1], IsNumeric, NumericValue))

\* What the code does instead: the entries that count are those whose value
\* the conversion of line 79 accepts (a string such as "1+" counts as 1);
\* each stat key holds the sum of their values and is absent exactly when
\* the sum is zero or there is none; removing every other entry changes
\* nothing in the output.
StatIsSumOfAcceptedEntries ==
    pe_pc = "done"
        => /\ \A ck \in CodeKey :
                StatIsSum(pe_ret, ck[2],
                          CodeSum(event_dict, ck[1], IsAccepted, AcceptedValue))
           /\ pe_ret = parse_effects_from_event_dict(
                          SelectSeq(event_dict, HasAcceptedValue), skill_map)

-----------------------------------------------------------------------------
(* Properties of parse_events_from_json_data, under SpecEvents.           *)

\* the decoded structure the function reads: the English one when there is
\* an English key, else the Japanese one, nothing when it does not decode
InputStruct ==
    LET st == IF "en" \in DOMAIN event_data THEN event_data["en"]
              ELSE IF "ja" \in DOMAIN event_data THEN event_data["ja"]
              ELSE EmptyStruct
    IN  IF st.ok THEN st ELSE EmptyStruct

InputEvents == InputStruct.random \o InputStruct.arrows

\* an option is usable when its outcome carries some effect
UsableOption(o) == \E i \in 1..Len(o[2]) : o[2][i] # EmptyDict

HasChoices(ev) == Len(ev.c) > 0

\* C4: an event is in the returned list only if one of its choices gives a
\* usable outcome; an event without choices, or whose choices give no
\* usable outcome, is not.
C4_EmittedEventsHaveAUsableOption ==
    ev_pc = "done"
        => \A i \in 1..Len(ev_ret) :
              \E j \in 1..Len(ev_ret[i].options) :
                 UsableOption(ev_ret[i].options[j])

\* C4 as amended: an event is emitted exactly when it has at least one
\* choice: the returned list is the input's events that have a choice, in
\* order, each with one option per choice; an event without choices never
\* appears, an event whose choices carry no effect still does.
C4_EmittedEventsHaveAChoice ==
    ev_pc = "done"
        => LET kept == SelectSeq(InputEvents, HasChoices)
           IN  /\ Len(ev_ret) = Len(kept)
               /\ \A i \in 1..Len(ev_ret) :
                     /\ ev_ret[i].name = kept[i].n
                     /\ Len(ev_ret[i].options) = Len(kept[i].c)
                     /\ Len(ev_ret[i].options) > 0

\* the input holds an event without choices, which is dropped, and an event
\* whose only choice carries no effect, which is emitted
C4_Witness ==
    /\ ev_pc = "done"
    /\ \E i \in 1..Len(InputEvents) : ~HasChoices(InputEvents[i])
    /\ Len(ev_ret) = 1
    /\ ev_ret[1].name = "B"
    /\ ev_ret[1].options = << <<IntToStr(1), <<EmptyDict>> >> >>

IsChain(e) == e.type = "chain"

IsRandom(e) == e.type = "random"

\* the positions, in order, of the events of a list that have a choice
RECURSIVE PositionsWithChoices(_, _)
PositionsWithChoices(events, k) ==
    IF k > Len(events) THEN <<>>
    ELSE (IF HasChoices(events[k]) THEN <<k>> ELSE <<>>)
         \o PositionsWithChoices(events, k + 1)

\* C6: the chain-step counter starts at 1 and goes up once per chain event
\* met, dropped ones included: the k-th chain event of the input, when
\* emitted, carries chain_step = k, emitted chain events have strictly
\* increasing chain_step in output order, and every random event carries
\* chain_step = 1.
C6_ChainStepCountsEveryChainEvent ==
    ev_pc = "done"
        => LET chain == SelectSeq(ev_ret, IsChain)
               pos == PositionsWithChoices(InputStruct.arrows, 1)
           IN  /\ Len(chain) = Len(pos)
               /\ \A i \in 1..Len(chain) :
                     /\ chain[i].chain_step = pos[i]
                     /\ chain[i].name = InputStruct.arrows[pos[i]].n
               /\ \A i, j \in 1..Len(chain) :
                     i < j => chain[i].chain_step < chain[j].chain_step
               /\ \A i \in 1..Len(ev_ret) :
                     IsRandom(ev_ret[i]) => ev_ret[i].chain_step = 1

\* the first chain event is dropped and the second, emitted, carries step 2
C6_Witness ==
    /\ ev_pc = "done"
    /\ Len(InputStruct.arrows) = 2
    /\ ~HasChoices(InputStruct.arrows[1])
    /\ HasChoices(InputStruct.arrows[2])
    /\ Len(SelectSeq(ev_ret, IsChain)) = 1
    /\ SelectSeq(ev_ret, IsChain)[1].chain_step = 2

-----------------------------------------------------------------------------
(* Properties of scrape_skills.main, under SpecSkills.                    *)

Present(v) == v # NoneVal

NonEmpty(v) == v # NoneVal /\ v # StrVal(<<>>)

HasIdAndName(skill) == Present(skill.id) /\ NonEmpty(skill.name_en)

HasAllFour(skill) ==
    /\ Present(skill.id)
    /\ NonEmpty(skill.name_en)
    /\ NonEmpty(skill.desc_en)
    /\ Present(skill.iconid)

IdsAndNames(out) == [i \in 1..Len(out) |-> <<out[i].id, out[i].name>>]

InputIdsAndNames(skills) ==
    [i \in 1..Len(skills) |-> <<skills[i].id, skills[i].name_en>>]

\* C8: the output holds exactly the input records that have an identifier
\* and a non-empty English name, in input order.
C8_OutputIsRecordsWithIdAndName ==
    sk_pc = "done"
        => IdsAndNames(sk_file.content)
              = InputIdsAndNames(SelectSeq(raw_skills_data.skills, HasIdAndName))

\* C8 as amended: the output holds exactly the input records that have an
\* identifier, a non-empty English name, a non-empty English description and
\* an icon identifier, in input order.
C8_OutputIsRecordsWithAllFour ==
    /\ sk_pc \in {"write", "done", "write_failed"}
          => LET kept == SelectSeq(raw_skills_data.skills, HasAllFour)
             IN  /\ IdsAndNames(detailed_skills) = InputIdsAndNames(kept)
                 /\ \A i \in 1..Len(kept) :
                       detailed_skills[i].description = kept[i].desc_en
    /\ sk_pc = "done" => sk_file = [written |-> TRUE, content |-> detailed_skills]
    /\ sk_pc # "done" => ~sk_file.written

\* a record with identifier 0 and all four fields is written, a record
\* that has an identifier and a name but no description is not
C8_Witness ==
    /\ sk_pc = "done"
    /\ Len(raw_skills_data.skills) = 2
    /\ HasIdAndName(raw_skills_data.skills[1])
    /\ ~HasAllFour(raw_skills_data.skills[1])
    /\ raw_skills_data.skills[2].id = IntVal(0)
    /\ Len(sk_file.content) = 1
    /\ sk_file.content[1].id = IntVal(0)

-----------------------------------------------------------------------------
(* Properties of scrape_supports.main, under Spec.                        *)

\* the failures of one card: network or status, marker, JSON, keys missing
\* or ill-typed
CardFailed(card) ==
    card.page \in {"net_error", "no_marker", "bad_json", "missing_key",
                   "ill_typed", "ill_typed_events"}

CardSucceeded(card) == ~CardFailed(card)

CardIds(cards) == [i \in 1..Len(cards) |-> FormattedId(ItemData(cards[i].name))]

RecordIds(recs) == [i \in 1..Len(recs) |-> recs[i].id]

\* C7: a card that fails is skipped and nothing else: the run does not end
\* on it, the later cards are processed, the final write is reached and the
\* output holds exactly the cards that did not fail, in input order.
C7_FailedCardIsSkippedOnly ==
    /\ pc # "crash_payload"
    /\ pc = "done"
          => RecordIds(out_file.content)
                = CardIds(SelectSeq(supported_cards, CardSucceeded))

RunEntries(dir) == {x \in DOMAIN dir.entries : dir.entries[x].origin = "run"}

\* the run has gone through its loop and written its output
RunEnded == pc = "done"

\* C9: in every run the directory is cleared once, at startup, before any
\* card is fetched or any image is written, so that when the run ends the
\* directory exists and holds only image files written during this run.
C9_DirHoldsOnlyThisRunsImages ==
    /\ RunEnded
          => /\ cleared = 1
             /\ img_dir.kind = "dir"
             /\ DOMAIN img_dir.entries = RunEntries(img_dir)
    /\ (card_idx > 1 \/ RunEntries(img_dir) # {}) => cleared = 1

\* C9 as amended: in every run given at least one card slug the clearing is
\* attempted once, at startup, before any card is fetched or any image is
\* written; when such a run reaches its end the directory exists and holds
\* only image files written during this run and the earlier entries the
\* clearing could not delete (those whose deletion failed and those that are
\* neither file, link nor directory).  A run given no slug returns without
\* touching the directory.
C9_DirHoldsThisRunsImagesAndUndeletable ==
    /\ cleared <= 1
    /\ pc \in {"start", "clear"}
          => cleared = 0 /\ card_idx = 1 /\ RunEntries(img_dir) = {}
    /\ pc \in {"mkdir", "loop", "done", "crash_payload"} => cleared = 1
    /\ (card_idx > 1 \/ RunEntries(img_dir) # {}) => cleared = 1
    /\ pc \in {"loop", "done"}
          => /\ img_dir.kind = "dir"
             /\ \A x \in DOMAIN img_dir.entries :
                   \/ img_dir.entries[x].origin = "run"
                   \/ img_dir.entries[x].locked
                   \/ img_dir.entries[x].kind \notin {"file", "link", "dir"}
    /\ pc = "returned" => cleared = 0 /\ Len(supported_cards) = 0

\* a run that ends with an image it wrote beside a subdirectory it could
\* not delete
C9_Witness ==
    /\ pc = "done"
    /\ cleared = 1
    /\ RunEntries(img_dir) # {}
    /\ <<"sub">> \in DOMAIN img_dir.entries
    /\ ImageFileName(ItemData("X")) \notin DOMAIN img_dir.entries

ImageFailed(card) == card.image \in {"no_tag", "no_src", "download_fails"}

\* C10: for a card whose page and payload are good, failing to find the
\* image tag or to download the image ends nothing: the record is appended
\* with the fields it has when the image succeeds, no image file is written
\* and the loop goes on to the next card.
C10_ImageFailureIsNotFatal ==
    [][(/\ pc = "loop"
        /\ card_idx <= Len(supported_cards)
        /\ supported_cards[card_idx].page = "good"
        /\ ImageFailed(supported_cards[card_idx]))
          => /\ all_supports' =
                   Append(all_supports,
                          SupportObj([supported_cards[card_idx]
                                         EXCEPT !.image = "ok"]))
             /\ img_dir' = img_dir
             /\ pc' = "loop"
             /\ card_idx' = card_idx + 1]_vars

\* the first card's download failed, its record is in the output before the
\* second card's, and only the second card's image is in the directory
C10_Witness ==
    /\ pc = "done"
    /\ Len(supported_cards) = 2
    /\ supported_cards[1] = [page |-> "good", image |-> "download_fails", name |-> "X"]
    /\ supported_cards[2] = [page |-> "good", image |-> "ok", name |-> "Y"]
    /\ RecordIds(out_file.content)
          = <<FormattedId(ItemData("X")), FormattedId(ItemData("Y"))>>
    /\ RunEntries(img_dir) = {ImageFileName(ItemData("Y"))}

-----------------------------------------------------------------------------
(* The default preference of the events parse_events_from_json_data emits, *)
(* under SpecEvents.                                                        *)

\* the option of an emitted event that choose_default_preference picked: it
\* has an outcome, so the loop examined it, and its key reads as the number
ExaminedOptionOf(e) ==
    {j \in 1..Len(e.options) :
        /\ HasOutcomes(e.options[j])
        /\ IsDigitStr(e.options[j][1])
        /\ DigitsToInt(e.options[j][1]) = e.default_preference}

\* C11: every event the function emits has a default_preference that is the
\* numeric value of one of the keys of its own options, a value in 1..n for
\* an event with n choices, and that key's option has an outcome, so the
\* value is never the initial 1 left over from a loop that examined nothing.
C11_DefaultPreferenceIsAnOwnOptionKey ==
    ev_pc = "done"
        => \A i \in 1..Len(ev_ret) :
              /\ ExaminedOptionOf(ev_ret[i]) # {}
              /\ ev_ret[i].default_preference \in 1..Len(ev_ret[i].options)
              /\ \A j \in 1..Len(ev_ret[i].options) :
                    /\ ev_ret[i].options[j][1] = IntToStr(j)
                    /\ HasOutcomes(ev_ret[i].options[j])

\* an emitted event with two choices whose default is the second, and an
\* emitted event whose only choice carries no effect and whose default is 1
C11_Witness ==
    /\ ev_pc = "done"
    /\ \E i \in 1..Len(ev_ret) :
          /\ Len(ev_ret[i].options) = 2
          /\ ev_ret[i].default_preference = 2
    /\ \E i \in 1..Len(ev_ret) :
          /\ ev_ret[i].options = << <<IntToStr(1), <<EmptyDict>> >> >>
          /\ ev_ret[i].default_preference = 1

=============================================================================
